---------------------------- MODULE Spec2Model ----------------------------
(***************************************************************************)
(* clean_dir_list.py: a recursive directory listing that prunes build and  *)
(* cache directories, sorts the relative paths and prints either all of    *)
(* them or the members of a fixed example list.                            *)
(*                                                                         *)
(* Strings are sequences of code points, so that the order list.sort()     *)
(* uses, the "/" that as_posix() inserts and the text of the diagnostic    *)
(* are computed and not assumed.  A directory path is the sequence of its  *)
(* component names below the resolved root.                                *)
(***************************************************************************)
EXTENDS Integers, Sequences, FiniteSets

\* "/" : the separator as_posix() writes
Slash ==
    47

\* "." : str() of the empty relative path
Dot ==
    <<46>>

(***************************** names used *********************************)
\* "package.json"
n_package_json ==
    <<112, 97, 99, 107, 97, 103, 101, 46, 106, 115, 111, 110>>
\* "README_SUBTASK1.md"
n_README_md ==
    <<82, 69, 65, 68, 77, 69, 95, 83, 85, 66, 84, 65, 83, 75, 49, 46, 109, 100>>
\* "src"
n_src ==
    <<115, 114, 99>>
\* "main.tsx"
n_main_tsx ==
    <<109, 97, 105, 110, 46, 116, 115, 120>>
\* "App.tsx"
n_App_tsx ==
    <<65, 112, 112, 46, 116, 115, 120>>
\* "src.txt"
n_src_txt ==
    <<115, 114, 99, 46, 116, 120, 116>>
\* "build"
n_build ==
    <<98, 117, 105, 108, 100>>
\* "out.js"
n_out_js ==
    <<111, 117, 116, 46, 106, 115>>
\* "Build"
n_Build ==
    <<66, 117, 105, 108, 100>>
\* "o.js"
n_o_js ==
    <<111, 46, 106, 115>>
\* "tmp"
n_tmp ==
    <<116, 109, 112>>
\* "t.log"
n_t_log ==
    <<116, 46, 108, 111, 103>>
\* "loop"
n_loop ==
    <<108, 111, 111, 112>>
\* "lnk"
n_lnk ==
    <<108, 110, 107>>
\* "gen.js"
n_gen_js ==
    <<103, 101, 110, 46, 106, 115>>
\* "node_modules"
n_node_modules ==
    <<110, 111, 100, 101, 95, 109, 111, 100, 117, 108, 101, 115>>
\* ".git"
n_dot_git ==
    <<46, 103, 105, 116>>
\* "dist"
n_dist ==
    <<100, 105, 115, 116>>
\* ".vite"
n_dot_vite ==
    <<46, 118, 105, 116, 101>>
\* ".cache"
n_dot_cache ==
    <<46, 99, 97, 99, 104, 101>>
\* ".parcel-cache"
n_dot_parcel_cache ==
    <<46, 112, 97, 114, 99, 101, 108, 45, 99, 97, 99, 104, 101>>
\* "__pycache__"
n_pycache ==
    <<95, 95, 112, 121, 99, 97, 99, 104, 101, 95, 95>>
\* "proj"
n_proj ==
    <<112, 114, 111, 106>>
\* "nope/"
n_nope_slash ==
    <<110, 111, 112, 101, 47>>
\* "notes.txt"
n_notes_txt ==
    <<110, 111, 116, 101, 115, 46, 116, 120, 116>>
EXAMPLE_FILES ==
    <<
      \* "package.json"
      <<112, 97, 99, 107, 97, 103, 101, 46, 106, 115, 111, 110>>,
      \* "src/main.tsx"
      <<115, 114, 99, 47, 109, 97, 105, 110, 46, 116, 115, 120>>,
      \* "src/App.tsx"
      <<115, 114, 99, 47, 65, 112, 112, 46, 116, 115, 120>>,
      \* "src/lib/supabaseClient.ts"
      <<115, 114, 99, 47, 108, 105, 98, 47, 115, 117, 112, 97, 98, 97, 115, 101, 67, 108, 105, 101, 110, 116, 46, 116, 115>>,
      \* "src/contexts/AuthProvider.tsx"
      <<115, 114, 99, 47, 99, 111, 110, 116, 101, 120, 116, 115, 47, 65, 117, 116, 104, 80, 114, 111, 118, 105, 100, 101, 114, 46, 116, 115, 120>>,
      \* "src/components/Navbar.tsx"
      <<115, 114, 99, 47, 99, 111, 109, 112, 111, 110, 101, 110, 116, 115, 47, 78, 97, 118, 98, 97, 114, 46, 116, 115, 120>>,
      \* "src/components/AuthModal.tsx"
      <<115, 114, 99, 47, 99, 111, 109, 112, 111, 110, 101, 110, 116, 115, 47, 65, 117, 116, 104, 77, 111, 100, 97, 108, 46, 116, 115, 120>>,
      \* "src/pages/Dashboard.tsx"
      <<115, 114, 99, 47, 112, 97, 103, 101, 115, 47, 68, 97, 115, 104, 98, 111, 97, 114, 100, 46, 116, 115, 120>>,
      \* "src/pages/Explore.tsx"
      <<115, 114, 99, 47, 112, 97, 103, 101, 115, 47, 69, 120, 112, 108, 111, 114, 101, 46, 116, 115, 120>>,
      \* "src/db/migrations/001_create_profiles.sql"
      <<115, 114, 99, 47, 100, 98, 47, 109, 105, 103, 114, 97, 116, 105, 111, 110, 115, 47, 48, 48, 49, 95, 99, 114, 101, 97, 116, 101, 95, 112, 114, 111, 102, 105, 108, 101, 115, 46, 115, 113, 108>>,
      \* "README_SUBTASK1.md"
      <<82, 69, 65, 68, 77, 69, 95, 83, 85, 66, 84, 65, 83, 75, 49, 46, 109, 100>>
    >>
\* "[error] root path '"
ErrPrefix ==
    <<91, 101, 114, 114, 111, 114, 93, 32, 114, 111, 111, 116, 32, 112, 97, 116, 104, 32, 39>>
\* "' does not exist or is not a directory."
ErrSuffix ==
    <<39, 32, 100, 111, 101, 115, 32, 110, 111, 116, 32, 101, 120, 105, 115, 116, 32, 111, 114, 32, 105, 115, 32, 110, 111, 116, 32, 97, 32, 100, 105, 114, 101, 99, 116, 111, 114, 121, 46>>

DEFAULT_EXCLUDE_DIRS ==
    {n_node_modules, n_dot_git, n_dist, n_build, n_dot_vite, n_dot_cache,
     n_dot_parcel_cache, n_pycache}

(***************************** bounds *************************************)
\* largest number of entries below the root
MaxEntries ==
    4

\* largest number of names given with --ignore
MaxIgnore ==
    1

(************************ strings and paths *******************************)
Range(s) ==
    {s[i] : i \in 1..Len(s)}

\* str < str of Python: code point order, a proper prefix is smaller
RECURSIVE StrLess(_, _)
StrLess(a, b) ==
    IF b = <<>> THEN FALSE
    ELSE IF a = <<>> THEN TRUE
    ELSE IF Head(a) # Head(b) THEN Head(a) < Head(b)
    ELSE StrLess(Tail(a), Tail(b))

RECURSIVE Insert(_, _)
Insert(x, s) ==
    IF s = <<>> THEN <<x>>
    ELSE IF StrLess(x, Head(s)) THEN <<x>> \o s
    ELSE <<Head(s)>> \o Insert(x, Tail(s))

\* results.sort() left out
SortListSkipped(s) ==
    s

\* results.sort()
RECURSIVE SortList(_)
SortList(s) ==
    IF s = <<>> THEN <<>> ELSE Insert(Head(s), SortList(Tail(s)))

\* PurePath.as_posix() / str() of a relative path given by its parts
RECURSIVE AsPosix(_)
AsPosix(parts) ==
    IF parts = <<>> THEN Dot
    ELSE IF Len(parts) = 1 THEN parts[1]
    ELSE parts[1] \o <<Slash>> \o AsPosix(Tail(parts))

\* RelPath with the directory part forgotten
RelPathNameOnly(dirpath, f) ==
    f

\* lines 70-73: the entry of file f found in directory dirpath
RelPath(dirpath, f) ==
    IF AsPosix(dirpath) = Dot THEN f ELSE AsPosix(Append(dirpath, f))

\* Path(args.root) rendered by str(): trailing separators are dropped
RECURSIVE PathStr(_)
PathStr(arg) ==
    IF Len(arg) > 1 /\ arg[Len(arg)] = Slash
    THEN PathStr(SubSeq(arg, 1, Len(arg) - 1))
    ELSE arg

RECURSIVE SplitFrom(_, _, _)
SplitFrom(s, i, cur) ==
    IF i > Len(s) THEN <<cur>>
    ELSE IF s[i] = Slash THEN <<cur>> \o SplitFrom(s, i + 1, <<>>)
    ELSE SplitFrom(s, i + 1, Append(cur, s[i]))

\* the parts of a path string
Components(s) ==
    SplitFrom(s, 1, <<>>)

\* root.resolve().name for a root given by name
RootName(arg) ==
    LET parts == Components(PathStr(arg)) IN parts[Len(parts)]

\* line 114
ErrLine(arg) ==
    ErrPrefix \o PathStr(arg) \o ErrSuffix

(***************************** filesystem *********************************)
File(p) ==
    [path |-> p, kind |-> "file", target |-> <<>>]

Dir(p) ==
    [path |-> p, kind |-> "dir", target |-> <<>>]

\* a symbolic link at p whose target is the directory t (<<>> is the root)
Link(p, t) ==
    [path |-> p, kind |-> "link", target |-> t]

\* the entries a tree below the root is drawn from
Universe ==
    { File(<<n_package_json>>), File(<<n_README_md>>), File(<<n_src_txt>>),
      Dir(<<n_src>>), File(<<n_src, n_main_tsx>>), File(<<n_src, n_App_tsx>>),
      Dir(<<n_src, n_build>>), File(<<n_src, n_build, n_gen_js>>),
      Link(<<n_src, n_loop>>, <<>>),
      Dir(<<n_build>>), File(<<n_build, n_out_js>>),
      Dir(<<n_Build>>), File(<<n_Build, n_o_js>>),
      Dir(<<n_tmp>>), File(<<n_tmp, n_t_log>>),
      Link(<<n_lnk>>, <<n_src>>) }

Parent(p) ==
    SubSeq(p, 1, Len(p) - 1)

\* every entry lies in a directory of the tree
Closed(S) ==
    \A e \in S : Len(e.path) > 1 => Dir(Parent(e.path)) \in S

Trees ==
    {S \in SUBSET Universe : Cardinality(S) <= MaxEntries /\ Closed(S)}

DirsOf(S) ==
    {<<>>} \cup {e.path : e \in {x \in S : x.kind = "dir"}}

\* the directory a path names once the links on it are followed
RECURSIVE RealFrom(_, _, _)
RealFrom(S, cur, rest) ==
    IF rest = <<>> THEN cur
    ELSE LET nxt == Append(cur, Head(rest)) IN
         IF \E e \in S : e.path = nxt /\ e.kind = "link"
         THEN RealFrom(S, (CHOOSE e \in S : e.path = nxt).target, Tail(rest))
         ELSE RealFrom(S, nxt, Tail(rest))

RealPath(S, p) ==
    RealFrom(S, <<>>, p)

\* DirEntry.is_dir(): follows a link
IsDir(S, p) ==
    LET r == RealPath(S, p) IN r = <<>> \/ Dir(r) \in S

\* os.path.islink
IsLink(S, p) ==
    \E e \in S : e.path = p /\ e.kind = "link"

\* the names scandir(dirpath) yields
Listing(S, dirpath) ==
    LET r == RealPath(S, dirpath) IN
    {e.path[Len(e.path)] : e \in {x \in S : Len(x.path) = Len(r) + 1 /\ Parent(x.path) = r}}

RECURSIVE Perms(_)
Perms(S) ==
    IF S = {} THEN {<<>>}
    ELSE UNION {{<<x>> \o p : p \in Perms(S \ {x})} : x \in S}

\* the orders in which scandir may yield the entries of dirpath
ScanOrders(S, dirpath) ==
    Perms(Listing(S, dirpath))

(***************************** the program ********************************)
VARIABLES
    fs,            \* the entries below the root
    unreadable,    \* directories whose listing fails with OSError
    rootArg,       \* the value of --root
    rootKind,      \* what that path is: "dir", "file" or "missing"
    entry,         \* "main": a run of the script; "gather_files": a caller
    ignore,        \* the names given with --ignore
    only_example,  \* --only-example
    pc,            \* position in the run
    exclude,       \* exclude_dirs
    stack,         \* directories os.walk has still to list, next first
    results,       \* results of gather_files
    visited,       \* directories os.walk has listed, or tried to
    stdout,        \* the lines printed
    pi,            \* index of the next element of the printing loop
    status,        \* exit status, -1 while the process runs
    calls,         \* calls of gather_files started
    prev           \* the list the previous call returned

vars ==
    <<fs, unreadable, rootArg, rootKind, entry, ignore, only_example, pc,
      exclude, stack, results, visited, stdout, pi, status, calls, prev>>

\* the roots a run may be given
RootChoices ==
    { [arg |-> n_proj, kind |-> "dir"], [arg |-> n_build, kind |-> "dir"],
      [arg |-> n_nope_slash, kind |-> "missing"],
      [arg |-> n_notes_txt, kind |-> "file"] }

\* the lists --ignore may give
IgnoreChoices ==
    {s \in UNION {[1..n -> {n_tmp}] : n \in 0..MaxIgnore} : TRUE}

\* the exclude sets a caller of gather_files passes
CallerExcludes ==
    {{}, {n_build}}

\* RootValid without the is_dir() test
RootValidExistsOnly(kind) ==
    kind # "missing"

\* line 113
RootValid(kind) ==
    kind # "missing" /\ kind = "dir"

\* BuildExclude with the given names replacing the defaults
BuildExcludeReplacing(defaults, extra) ==
    IF extra = <<>> THEN defaults ELSE Range(extra)

\* lines 117-118
BuildExclude(defaults, extra) ==
    defaults \cup Range(extra)

\* WalkTop with the exclude set applied to the root as well
WalkTopTested(name, ex) ==
    IF name \in ex THEN <<>> ELSE << <<>> >>

\* os.walk(root): the walk starts at the top, whatever its name
WalkTop(name, ex) ==
    << <<>> >>

\* Prune that filters nothing
PruneNothing(dirnames, ex) ==
    dirnames

\* Prune as a loop that removes from the list it iterates over: the name
\* after a removed one is skipped
RECURSIVE PruneWhileIterating(_, _)
PruneWhileIterating(dirnames, ex) ==
    IF dirnames = <<>> THEN <<>>
    ELSE IF Head(dirnames) \in ex
         THEN IF Len(dirnames) = 1 THEN <<>>
              ELSE <<dirnames[2]>> \o PruneWhileIterating(Tail(Tail(dirnames)), ex)
         ELSE <<Head(dirnames)>> \o PruneWhileIterating(Tail(dirnames), ex)

\* line 65
Prune(dirnames, ex) ==
    SelectSeq(dirnames, LAMBDA d : d \notin ex)

\* Descend with followlinks=True
DescendFollowing(S, dirpath, dirnames) ==
    [i \in 1..Len(dirnames) |-> Append(dirpath, dirnames[i])]

\* os.walk, followlinks=False: the directories descended into
Descend(S, dirpath, dirnames) ==
    SelectSeq([i \in 1..Len(dirnames) |-> Append(dirpath, dirnames[i])],
              LAMBDA p : ~IsLink(S, p))

\* scandir raises OSError, which os.walk (onerror=None) ignores
ScandirFails(dirpath) ==
    dirpath \in unreadable \/ (dirpath = <<>> /\ rootKind # "dir")

\* ExampleStep without the membership test
ExampleStepUnchecked(out, p, found) ==
    Append(out, p)

\* lines 92-93
ExampleStep(out, p, found) ==
    IF p \in found THEN Append(out, p) ELSE out

Init ==
    /\ \E w \in RootChoices :
         /\ rootArg = w.arg
         /\ rootKind = w.kind
         /\ fs \in IF w.kind = "dir" THEN Trees ELSE {{}}
    /\ unreadable \in {{}} \cup {{d} : d \in IF rootKind = "dir" THEN DirsOf(fs) ELSE {}}
    /\ entry \in IF rootKind = "dir" THEN {"main", "gather_files"} ELSE {"main"}
    /\ IF entry = "main"
       THEN /\ ignore \in IgnoreChoices
            /\ only_example \in BOOLEAN
            /\ pc = "start"
            /\ exclude = {}
            /\ stack = <<>>
            /\ calls = 0
       ELSE /\ ignore = <<>>
            /\ only_example = FALSE
            /\ pc = "walk"
            /\ exclude \in CallerExcludes
            /\ stack = WalkTop(RootName(rootArg), exclude)
            /\ calls = 1
    /\ results = <<>>
    /\ visited = {}
    /\ stdout = <<>>
    /\ pi = 1
    /\ status = -1
    /\ prev = <<>>

\* lines 112-115
Validate ==
    /\ pc = "start"
    /\ IF RootValid(rootKind)
       THEN /\ pc' = "exclude"
            /\ UNCHANGED <<stdout, status>>
       ELSE /\ stdout' = Append(stdout, ErrLine(rootArg))
            /\ status' = 2
            /\ pc' = "done"
    /\ UNCHANGED <<fs, unreadable, rootArg, rootKind, entry, ignore,
                   only_example, exclude, stack, results, visited, pi, calls, prev>>

\* lines 117-123 up to the call of gather_files, and lines 61-62
Configure ==
    /\ pc = "exclude"
    /\ exclude' = BuildExclude(DEFAULT_EXCLUDE_DIRS, ignore)
    /\ stack' = WalkTop(RootName(rootArg), exclude')
    /\ results' = <<>>
    /\ calls' = calls + 1
    /\ pc' = "walk"
    /\ UNCHANGED <<fs, unreadable, rootArg, rootKind, entry, ignore,
                   only_example, visited, stdout, pi, status, prev>>

\* where gather_files returns to
AfterWalk ==
    IF entry = "gather_files" THEN "returned"
    ELSE IF only_example THEN "print_example" ELSE "print_all"

\* lines 63-76: one iteration of the loop over os.walk; the iteration that
\* exhausts the walk also sorts and returns
WalkStep ==
    /\ pc = "walk"
    /\ stack # <<>>
    /\ LET top == Head(stack) IN
       /\ visited' = visited \cup {top}
       /\ \E ord \in IF ScandirFails(top) THEN {<<>>} ELSE ScanOrders(fs, top) :
            LET dirs     == SelectSeq(ord, LAMBDA n : IsDir(fs, Append(top, n)))
                nondirs  == SelectSeq(ord, LAMBDA n : ~IsDir(fs, Append(top, n)))
                dirnames == Prune(dirs, exclude)
                found    == results \o [i \in 1..Len(nondirs) |-> RelPath(top, nondirs[i])]
                rest     == Descend(fs, top, dirnames) \o Tail(stack)
            IN  /\ stack' = rest
                /\ IF rest = <<>>
                   THEN results' = SortList(found) /\ pc' = AfterWalk
                   ELSE results' = found /\ pc' = pc
    /\ UNCHANGED <<fs, unreadable, rootArg, rootKind, entry, ignore,
                   only_example, exclude, stdout, pi, status, calls, prev>>

\* a caller calls gather_files again on the unchanged tree
CallAgain ==
    /\ pc = "returned"
    /\ calls = 1
    /\ prev' = results
    /\ results' = <<>>
    /\ stack' = WalkTop(RootName(rootArg), exclude)
    /\ calls' = 2
    /\ pc' = "walk"
    /\ UNCHANGED <<fs, unreadable, rootArg, rootKind, entry, ignore,
                   only_example, exclude, visited, stdout, pi, status>>

\* lines 81-82
PrintAll ==
    /\ pc = "print_all"
    /\ pi <= Len(results)
    /\ stdout' = Append(stdout, results[pi])
    /\ pi' = pi + 1
    /\ UNCHANGED <<fs, unreadable, rootArg, rootKind, entry, ignore,
                   only_example, pc, exclude, stack, results, visited,
                   status, calls, prev>>

\* lines 90-93
PrintExample ==
    /\ pc = "print_example"
    /\ pi <= Len(EXAMPLE_FILES)
    /\ stdout' = ExampleStep(stdout, EXAMPLE_FILES[pi], Range(results))
    /\ pi' = pi + 1
    /\ UNCHANGED <<fs, unreadable, rootArg, rootKind, entry, ignore,
                   only_example, pc, exclude, stack, results, visited,
                   status, calls, prev>>

\* main returns: the process ends with status 0
Exit ==
    /\ \/ pc = "print_all" /\ pi > Len(results)
       \/ pc = "print_example" /\ pi > Len(EXAMPLE_FILES)
    /\ pc' = "done"
    /\ status' = 0
    /\ UNCHANGED <<fs, unreadable, rootArg, rootKind, entry, ignore,
                   only_example, exclude, stack, results, visited, stdout,
                   pi, calls, prev>>

Next ==
    \/ Validate
    \/ Configure
    \/ WalkStep
    \/ CallAgain
    \/ PrintAll
    \/ PrintExample
    \/ Exit

Spec ==
    Init /\ [][Next]_vars

(***************************** properties *********************************)
\* gather_files has returned
Returned ==
    rootKind = "dir" /\ pc \in {"returned", "print_all", "print_example", "done"}

\* strictly ascending in the order of the whole strings
IsAscending(s) ==
    \A i \in 1..(Len(s) - 1) : StrLess(s[i], s[i + 1])

\* the entries of the tree that are not directories
TreeFiles ==
    {e \in fs : ~IsDir(fs, e.path)}

\* every directory above e, the root included, can be listed
Listable(e) ==
    \A k \in 0..(Len(e.path) - 1) : SubSeq(e.path, 1, k) \notin unreadable

\* no directory above e has a name in ex
Unpruned(e, ex) ==
    \A k \in 1..(Len(e.path) - 1) : e.path[k] \notin ex

\* the relative paths of the files a walk that prunes ex reaches
Reached(ex) ==
    {AsPosix(e.path) : e \in {x \in TreeFiles : Listable(x) /\ Unpruned(x, ex)}}

Contains(line, sub) ==
    \E i \in 0..(Len(line) - Len(sub)) : SubSeq(line, i + 1, i + Len(sub)) = sub

\* C1 as stated, taken on the trees whose root can be listed: with an empty
\* exclude set gather_files returns one entry per file of the tree, as its
\* relative path with "/" separators, in ascending order of the whole
\* string, and a second call on the unchanged tree returns the same list.
C1_EveryFileListed ==
    (pc = "returned" /\ exclude = {} /\ <<>> \notin unreadable) =>
        /\ IsAscending(results)
        /\ Range(results) = {AsPosix(e.path) : e \in TreeFiles}
        /\ calls = 2 => results = prev

\* C1 amended: with an empty exclude set gather_files returns one entry per
\* file of the tree that is not below a directory whose listing fails, as
\* its relative path with "/" separators, in ascending order of the whole
\* string, whatever the order of enumeration, and a second call on the
\* unchanged tree returns the same list.
C1_EveryListableFileListed ==
    (pc = "returned" /\ exclude = {}) =>
        /\ IsAscending(results)
        /\ Range(results) = {AsPosix(e.path) : e \in {x \in TreeFiles : Listable(x)}}
        /\ calls = 2 => results = prev

C1_Witness ==
    /\ pc = "returned" /\ calls = 2 /\ exclude = {} /\ unreadable = {}
    /\ {File(<<n_src_txt>>), File(<<n_src, n_App_tsx>>), File(<<n_src, n_main_tsx>>)} \subseteq fs
    /\ Len(results) = 3

\* C2: no file below a subdirectory whose name is in the exclude set, at any
\* depth, is in the list gather_files returns; no returned path has a
\* directory component that is a member of the exclude set.
C2_ExcludedSubtreesAbsent ==
    Returned =>
        /\ \A e \in fs : ~Unpruned(e, exclude) => AsPosix(e.path) \notin Range(results)
        /\ \A r \in Range(results) :
             LET parts == Components(r) IN
             \A k \in 1..(Len(parts) - 1) : parts[k] \notin exclude

C2_Witness ==
    /\ Returned /\ n_build \in exclude
    /\ File(<<n_src, n_build, n_gen_js>>) \in fs
    /\ AsPosix(<<n_src, n_main_tsx>>) \in Range(results)

\* C3: the exclude set of a run is the eight default names together with
\* the names given with --ignore, and the list the run gathers is the one a
\* walk pruning all of these names reaches.
C3_IgnoreAddsToDefaults ==
    (entry = "main" /\ rootKind = "dir" /\ pc \notin {"start", "exclude"}) =>
        /\ exclude = DEFAULT_EXCLUDE_DIRS \cup Range(ignore)
        /\ Cardinality(DEFAULT_EXCLUDE_DIRS) = 8
        /\ Returned => Range(results) = Reached(DEFAULT_EXCLUDE_DIRS \cup Range(ignore))

C3_Witness ==
    /\ entry = "main" /\ pc = "done" /\ ignore = <<n_tmp>>
    /\ {File(<<n_build, n_out_js>>), File(<<n_tmp, n_t_log>>)} \subseteq fs
    /\ unreadable = {}

\* C4: the lines print_only_example has written are the entries of
\* EXAMPLE_FILES it has passed that are in the list gather_files returned, in
\* the order of EXAMPLE_FILES; at the end that is every such entry, and the
\* run ends without error.
C4_ExampleOutput ==
    (rootKind = "dir" /\ only_example /\ pc \in {"print_example", "done"}) =>
        /\ stdout = SelectSeq(SubSeq(EXAMPLE_FILES, 1, pi - 1),
                              LAMBDA p : p \in Range(results))
        /\ pc = "done" => pi = Len(EXAMPLE_FILES) + 1 /\ status = 0

C4_Witness ==
    /\ pc = "done" /\ only_example
    /\ stdout = <<n_package_json, n_README_md>>
    /\ results = <<n_README_md, n_package_json, n_src_txt>>

\* C5: when --root is not an existing directory main writes one line, which
\* holds the path, ends with status 2, and neither walks nor lists; every
\* other run that ends has status 0.
C5_InvalidRoot ==
    entry = "main" =>
        /\ (rootKind # "dir" /\ pc # "start") =>
              /\ pc = "done" /\ status = 2
              /\ Len(stdout) = 1 /\ Contains(stdout[1], PathStr(rootArg))
              /\ visited = {} /\ calls = 0 /\ results = <<>>
        /\ rootKind = "dir" => status = (IF pc = "done" THEN 0 ELSE -1)

C5_Witness ==
    pc = "done" /\ rootKind = "file" /\ status = 2 /\ stdout = <<ErrLine(n_notes_txt)>>

\* C6: a run whose root is a directory that cannot be listed does not end as
\* a run on an empty root does, with status 0 and nothing written.
C6_RootFailureNotMasked ==
    ~(entry = "main" /\ rootKind = "dir" /\ <<>> \in unreadable
        /\ pc = "done" /\ status = 0 /\ stdout = <<>>)

\* C7: at every step of the walk no directory with an excluded name, and no
\* directory below one, has been listed or is waiting to be listed, and no
\* path from such a directory has been collected.
C7_PrunedBeforeDescent ==
    /\ \A d \in visited \cup Range(stack) : \A k \in 1..Len(d) : d[k] \notin exclude
    /\ \A r \in Range(results) :
         LET parts == Components(r) IN
         \A k \in 1..(Len(parts) - 1) : parts[k] \notin exclude

C7_Witness ==
    /\ pc = "walk" /\ n_build \in exclude
    /\ File(<<n_src, n_build, n_gen_js>>) \in fs
    /\ <<n_src>> \in visited /\ stack # <<>>

\* C8: the root is validated and the exclude set built before the walk
\* starts, and a path line is written only once the walk is exhausted and
\* the whole list is sorted.
C8_PhaseOrder ==
    /\ (entry = "main" /\ (calls > 0 \/ visited # {} \/ exclude # {})) =>
          rootKind = "dir"
    /\ (entry = "main" /\ (calls > 0 \/ visited # {})) =>
          exclude = DEFAULT_EXCLUDE_DIRS \cup Range(ignore)
    /\ pc \in {"start", "exclude", "walk", "returned"} => stdout = <<>>
    /\ (\E i \in 1..Len(stdout) : stdout[i] # ErrLine(rootArg)) =>
          /\ stack = <<>>
          /\ IsAscending(results)
          /\ Range(results) = Reached(exclude)

C8_Witness ==
    pc = "print_all" /\ Len(results) = 3 /\ Len(stdout) = 1 /\ Cardinality(visited) > 1

\* p lies below a symbolic link
ThroughLink(p) ==
    \E k \in 1..(Len(p) - 1) : IsLink(fs, SubSeq(p, 1, k))

\* C9: the walk lists real directories of the tree only, never one reached
\* through or at a symbolic link, and no returned path passes through a
\* link; it lists no directory twice, so it ends after at most as many steps
\* as the tree has directories, also when a link points to an ancestor.
C9_LinksNotFollowed ==
    /\ visited \subseteq DirsOf(fs)
    /\ Range(stack) \subseteq DirsOf(fs)
    /\ \A i, j \in 1..Len(stack) : i # j => stack[i] # stack[j]
    /\ (pc = "walk" /\ calls = 1) => Range(stack) \cap visited = {}
    /\ \A r \in Range(results) : ~ThroughLink(Components(r))

C9_Witness ==
    /\ Returned
    /\ {Link(<<n_src, n_loop>>, <<>>), File(<<n_src, n_main_tsx>>), File(<<n_package_json>>)} \subseteq fs
    /\ Range(results) = {n_package_json, AsPosix(<<n_src, n_main_tsx>>)}

\* C10: when the base name of the root is in the exclude set the root is
\* listed all the same and the run gathers what a walk from the root that
\* prunes the excluded subdirectories reaches, the files directly in the
\* root included.
C10_RootNameNotTested ==
    (rootKind = "dir" /\ calls > 0 /\ RootName(rootArg) \in exclude) =>
        /\ <<>> \in visited \/ (stack # <<>> /\ Head(stack) = <<>>)
        /\ \A d \in visited : \A k \in 1..Len(d) : d[k] \notin exclude
        /\ Returned => Range(results) = Reached(exclude)

C10_Witness ==
    /\ pc = "done" /\ rootArg = n_build /\ n_build \in exclude
    /\ {File(<<n_package_json>>), File(<<n_build, n_out_js>>)} \subseteq fs
    /\ Range(results) = {n_package_json}

=============================================================================
